---- MODULE Spec2Model ----
(***************************************************************************)
(* IPO notifier (src/main.py, src/discord.py): one run of main() polls     *)
(* the feed, selects the entries above the persisted watermark, posts up   *)
(* to three of them to a webhook and persists the page maximum.  Runs are  *)
(* sequential; the state file is the only state that outlives a run.       *)
(*                                                                         *)
(* Abstractions.  A feed entry is identified by its ipoId; its companyName *)
(* is the only display field kept (one distinct name per id); whether the  *)
(* entries carry every other field the formatter reads is chosen when the  *)
(* formatter runs.  A failing state write is modelled as open() raising,   *)
(* which leaves the file untouched.                                        *)
(***************************************************************************)
EXTENDS Integers, Sequences, FiniteSets, TLC

VARIABLES
    stateFile,      \* content of last_ipo_state.json
    env,            \* which of IPO_NEWS_URL, DISCORD_WEBHOOK_URL this run's process has
    fileAtStart,    \* history: content of the state file when the run began
                    \* (between runs: its current content)
    pc,             \* position of the current run of main()
    resp,           \* the feed response of the latest GET
    all_data,       \* main.py:195
    last_max_id,    \* main.py:199, a JSON value
    readLog,        \* level logged by get_last_max_id in this run
    max_current_id, \* main.py:203
    new_data,       \* main.py:204
    payload,        \* main.py:210
    events,         \* history: external effects attempted by this run, in order
    cause,          \* why the run ended: none, config, http, shape, exception
    error,          \* the step whose exception reached the handler of main.py:220
    propagated,     \* an exception left main()
    postOutcome,    \* outcome of this run's webhook POST
    persistedIds,   \* history: ids on the pages of runs that wrote the watermark
    sameFeed,       \* the feed serves this run what it served the previous run
    prevBroken      \* history: the previous run found new entries and then raised

vars == << stateFile, env, fileAtStart, pc, resp, all_data, last_max_id, readLog,
           max_current_id, new_data, payload, events, cause, error, propagated,
           postOutcome, persistedIds, sameFeed, prevBroken >>

(* ------------------------------ bounds --------------------------------- *)
MaxId == 5
MaxLen == 4

(* --------------------------- program constants ------------------------- *)
TopN == 3

(* ------------------------------ helpers -------------------------------- *)
Ids == 1 .. MaxId

Min2(a, b) == IF a < b THEN a ELSE b

Take(s, n) == SubSeq(s, 1, Min2(n, Len(s)))

Range(s) == { s[i] : i \in DOMAIN s }

Entry(i) == [ipoId |-> i, companyName |-> i]

\* Pages: non-empty lists of entries with distinct ids, in any order.
Pages ==
    { p \in UNION { [1 .. n -> Ids] : n \in 1 .. Min2(MaxLen, MaxId) } :
        \A i, j \in DOMAIN p : i # j => p[i] # p[j] }

PageOf(p) == [ i \in DOMAIN p |-> Entry(p[i]) ]

(* --------------------------- JSON values ------------------------------- *)
JInt(n) == [type |-> "int", v |-> n]
JStr == [type |-> "str", v |-> 0]

(* --------------------------- state file -------------------------------- *)
\* absent: no file.  empty: not valid JSON.  list: valid JSON, not an object.
\* wrongkey: an object without "last_max_id".  strvalue: the key holds a
\* non-number.  object: {"last_max_id": val}.
FileKinds == {"absent", "empty", "list", "wrongkey", "strvalue"}

FileContents ==
    { [kind |-> k, val |-> 0] : k \in FileKinds }
        \cup { [kind |-> "object", val |-> n] : n \in 0 .. MaxId }


\* get_last_max_id: what it returns, what it logs, and whether it raises.
\* json.load of a non-object succeeds and data.get then raises
\* AttributeError, which the except clause of line 44 does not name.
get_last_max_id(f) ==
    CASE f.kind = "absent"   -> [raised |-> FALSE, ret |-> JInt(0), log |-> "info"]
      [] f.kind = "empty"    -> [raised |-> FALSE, ret |-> JInt(0), log |-> "warning"]
      [] f.kind = "list"     -> [raised |-> TRUE,  ret |-> JInt(0), log |-> "none"]
      [] f.kind = "wrongkey" -> [raised |-> FALSE, ret |-> JInt(0), log |-> "none"]
      [] f.kind = "strvalue" -> [raised |-> FALSE, ret |-> JStr,    log |-> "none"]
      [] f.kind = "object"   -> [raised |-> FALSE, ret |-> JInt(f.val), log |-> "none"]

update_last_max_id(max_id) == [kind |-> "object", val |-> max_id]

(* --------------------------- feed responses ---------------------------- *)
\* connerr: requests.get raises.  http500: a status other than 200.
\* notjson: 200 with a body response.json() cannot parse.  falsy: the body is
\* null or {}.  list: a non-empty JSON array.  badstatus: statusCode is not
\* 200.  noresult: no "result" key.  nullresult: "result" is null.
\* nodata: result.data is missing or empty.  page: a non-empty result.data.
NoResponse == [kind |-> "unset", data |-> << >>]

PlainKinds == {"connerr", "http500", "notjson", "falsy", "list", "noresult",
               "nullresult", "nodata"}

Responses ==
    { [kind |-> k, data |-> << >>] : k \in PlainKinds }
        \cup { [kind |-> "badstatus", data |-> PageOf(<<1>>)] }
        \cup { [kind |-> "page", data |-> PageOf(p)] : p \in Pages }

IPONews(r) ==
    CASE r.kind = "connerr" -> "raise_get"
      [] r.kind = "http500" -> "none"
      [] r.kind = "notjson" -> "raise_json"
      [] OTHER              -> "json"

\* Fault variant: the condition without its statusCode test.
ShapeCheckNoStatus(r) ==
    CASE r.kind = "falsy"      -> "fail"
      [] r.kind = "list"       -> "raise"
      [] r.kind = "badstatus"  -> "pass"
      [] r.kind = "noresult"   -> "fail"
      [] r.kind = "nullresult" -> "raise"
      [] r.kind = "nodata"     -> "fail"
      [] r.kind = "page"       -> "pass"

\* The condition of main.py:194 on a parsed body.
ShapeCheck(r) ==
    CASE r.kind = "falsy"      -> "fail"
      [] r.kind = "list"       -> "raise"
      [] r.kind = "badstatus"  -> "fail"
      [] r.kind = "noresult"   -> "fail"
      [] r.kind = "nullresult" -> "raise"
      [] r.kind = "nodata"     -> "fail"
      [] r.kind = "page"       -> "pass"

(* ------------------------------- diff ---------------------------------- *)
\* Fault variant: the last id of the page taken for its maximum.
LastOf(ids) == IF ids = << >> THEN 0 ELSE ids[Len(ids)]

MaxOf(ids) ==
    IF ids = << >> THEN 0
    ELSE CHOOSE m \in Range(ids) : \A x \in Range(ids) : m >= x

\* Fault variant: the ids of the first TopN entries only.
CurrentIdsOfShown(data) ==
    [ i \in DOMAIN Take(data, TopN) |-> data[i].ipoId ]

CurrentIds(data) == [ i \in DOMAIN data |-> data[i].ipoId ]

\* Fault variant: >= where the code has >.
IsNewInclusive(e, last) == e.ipoId >= last

IsNew(e, last) == e.ipoId > last

SelectNew(data, last) == SelectSeq(data, LAMBDA e : IsNew(e, last))

\* Fault variant: the last TopN entries where the code takes the first.
LimitLast(data) ==
    IF Len(data) <= TopN THEN data
    ELSE SubSeq(data, Len(data) - TopN + 1, Len(data))

Limit(data) == Take(data, TopN)

(* ------------------------------ render --------------------------------- *)
NoPayload == [username |-> "none", embeds |-> << >>]

Embed(ipo) == [title |-> ipo.companyName]

\* create_discord_embed raises KeyError / AttributeError at the first entry
\* that lacks a field it reads (fieldsOk: none of those rendered does).
create_discord_embed(ipo_data, fieldsOk) ==
    LET shown == Take(ipo_data, TopN)
    IN  IF shown # << >> /\ ~fieldsOk
        THEN [raised |-> TRUE, value |-> NoPayload]
        ELSE [raised |-> FALSE,
              value |-> [username |-> "IPO Notifier",
                         embeds |-> [ i \in DOMAIN shown |-> Embed(shown[i]) ]]]

(* ------------------------------ notifier ------------------------------- *)
\* ok: 2xx.  httperror: raise_for_status raises HTTPStatusError.  transport:
\* httpx.RequestError.  invalidurl: httpx.InvalidURL, which is neither.
PostOutcomes == {"ok", "httperror", "transport", "invalidurl"}

\* Fault variant: no except clause for httpx.RequestError.
send_discord_alert_no_transport(o) ==
    CASE o = "ok"         -> "returns"
      [] o = "httperror"  -> "returns"
      [] o = "transport"  -> "raises"
      [] o = "invalidurl" -> "raises"

send_discord_alert(o) ==
    CASE o = "ok"         -> "returns"
      [] o = "httperror"  -> "returns"
      [] o = "transport"  -> "returns"
      [] o = "invalidurl" -> "raises"

(* --------------------------- the run of main() ------------------------- *)
\* TRUE: the variable is set (os.getenv returns a string).
Envs == [IPO_NEWS_URL : BOOLEAN, DISCORD_WEBHOOK_URL : BOOLEAN]

Terminal == {"Persisted", "Aborted"}

\* Fault variant: a handler for requests.RequestException only.
CatchRequestsOnly(step) ==
    /\ pc' = "Aborted"
    /\ cause' = "exception"
    /\ error' = step
    /\ propagated' = (step # "fetch")

\* except Exception (main.py:220): log and return.
Catch(step) ==
    /\ pc' = "Aborted"
    /\ cause' = "exception"
    /\ error' = step
    /\ propagated' = FALSE

Goto(p, c) ==
    /\ pc' = p
    /\ cause' = c
    /\ UNCHANGED << error, propagated >>

Init ==
    /\ stateFile \in FileContents
    /\ env \in Envs
    /\ fileAtStart = stateFile
    /\ pc = "Init"
    /\ resp = NoResponse
    /\ all_data = << >>
    /\ last_max_id = JInt(0)
    /\ readLog = "none"
    /\ max_current_id = 0
    /\ new_data = << >>
    /\ payload = NoPayload
    /\ events = << >>
    /\ cause = "none"
    /\ error = "none"
    /\ propagated = FALSE
    /\ postOutcome = "none"
    /\ persistedIds = {}
    /\ sameFeed = FALSE
    /\ prevBroken = FALSE

\* main.py:172-184
LoadConfig ==
    /\ pc = "Init"
    /\ LET initial_url == env.IPO_NEWS_URL
           discord_webhook_url == env.DISCORD_WEBHOOK_URL
       IN  IF initial_url /\ discord_webhook_url
           THEN Goto("Configured", "none")
           ELSE Goto("Aborted", "config")
    /\ UNCHANGED << stateFile, env, fileAtStart, resp, all_data, last_max_id, readLog,
                    max_current_id, new_data, payload, events, postOutcome,
                    persistedIds, sameFeed, prevBroken >>

\* main.py:193-196 and 218-219
Fetch ==
    /\ pc = "Configured"
    /\ \E r \in (IF sameFeed THEN {resp} ELSE Responses) :
          /\ resp' = r
          /\ events' = Append(events, "GET")
          /\ CASE IPONews(r) = "raise_get" ->
                    Catch("fetch") /\ UNCHANGED all_data
               [] IPONews(r) = "raise_json" ->
                    Catch("parse") /\ UNCHANGED all_data
               [] IPONews(r) = "none" ->
                    Goto("Aborted", "http") /\ UNCHANGED all_data
               [] IPONews(r) = "json" /\ ShapeCheck(r) = "raise" ->
                    Catch("parse") /\ UNCHANGED all_data
               [] IPONews(r) = "json" /\ ShapeCheck(r) = "fail" ->
                    Goto("Aborted", "shape") /\ UNCHANGED all_data
               [] IPONews(r) = "json" /\ ShapeCheck(r) = "pass" ->
                    Goto("Fetched", "none") /\ all_data' = r.data
    /\ UNCHANGED << stateFile, env, fileAtStart, last_max_id, readLog, max_current_id,
                    new_data, payload, postOutcome, persistedIds, sameFeed,
                    prevBroken >>

\* main.py:199
ReadState ==
    /\ pc = "Fetched"
    /\ LET g == get_last_max_id(stateFile)
       IN  /\ events' = Append(events, "READ")
           /\ readLog' = g.log
           /\ IF g.raised
              THEN Catch("read") /\ UNCHANGED last_max_id
              ELSE Goto("StateRead", "none") /\ last_max_id' = g.ret
    /\ UNCHANGED << stateFile, env, fileAtStart, resp, all_data, max_current_id,
                    new_data, payload, postOutcome, persistedIds, sameFeed, prevBroken >>

\* main.py:202-204; comparing an ipoId with a non-number raises TypeError.
Diff ==
    /\ pc = "StateRead"
    /\ max_current_id' = MaxOf(CurrentIds(all_data))
    /\ IF last_max_id.type # "int"
       THEN Catch("diff") /\ UNCHANGED new_data
       ELSE Goto("Diffed", "none") /\ new_data' = SelectNew(all_data, last_max_id.v)
    /\ UNCHANGED << stateFile, env, fileAtStart, resp, all_data, last_max_id, readLog,
                    payload, events, postOutcome, persistedIds, sameFeed, prevBroken >>

\* Fault variant: the watermark is written although nothing is new.
SkipAndWrite ==
    /\ pc = "Diffed"
    /\ new_data = << >>
    /\ Goto("Persisted", "none")
    /\ stateFile' = update_last_max_id(max_current_id)
    /\ events' = Append(events, "WRITE")
    /\ UNCHANGED << env, fileAtStart, resp, all_data, last_max_id, readLog,
                    max_current_id, new_data, payload, postOutcome,
                    persistedIds, sameFeed, prevBroken >>

\* main.py:216-217
Skip ==
    /\ pc = "Diffed"
    /\ new_data = << >>
    /\ Goto("Persisted", "none")
    /\ UNCHANGED << stateFile, env, fileAtStart, resp, all_data, last_max_id, readLog,
                    max_current_id, new_data, payload, events, postOutcome,
                    persistedIds, sameFeed, prevBroken >>

\* main.py:206-210
Render ==
    /\ pc = "Diffed"
    /\ new_data # << >>
    /\ \E fieldsOk \in BOOLEAN :
          LET new_data_limited == Limit(new_data)
              c == create_discord_embed(new_data_limited, fieldsOk)
          IN  IF c.raised
              THEN Catch("render") /\ UNCHANGED payload
              ELSE Goto("Rendered", "none") /\ payload' = c.value
    /\ UNCHANGED << stateFile, env, fileAtStart, resp, all_data, last_max_id, readLog,
                    max_current_id, new_data, events, postOutcome, persistedIds,
                    sameFeed, prevBroken >>

\* main.py:211-212, discord.py:8-19
Deliver ==
    /\ pc = "Rendered"
    /\ \E o \in PostOutcomes :
          /\ postOutcome' = o
          /\ events' = Append(events, "POST")
          /\ IF send_discord_alert(o) = "raises"
             THEN Catch("deliver")
             ELSE Goto("Notified", "none")
    /\ UNCHANGED << stateFile, env, fileAtStart, resp, all_data, last_max_id, readLog,
                    max_current_id, new_data, payload, persistedIds, sameFeed,
                    prevBroken >>

\* main.py:215; open() for writing may raise OSError.
Persist ==
    /\ pc = "Notified"
    /\ events' = Append(events, "WRITE")
    /\ \E writable \in BOOLEAN :
          IF writable
          THEN /\ stateFile' = update_last_max_id(max_current_id)
               /\ persistedIds' = persistedIds \cup Range(CurrentIds(all_data))
               /\ Goto("Persisted", "none")
          ELSE /\ Catch("write")
               /\ UNCHANGED << stateFile, persistedIds >>
    /\ UNCHANGED << env, fileAtStart, resp, all_data, last_max_id, readLog,
                    max_current_id, new_data, payload, postOutcome, sameFeed,
                    prevBroken >>

\* main() returns (main.py:180, 184, 217, 219, 221 or the end of 215): its
\* locals are gone; what the feed served and how the run ended is remembered.
Return ==
    /\ pc \in Terminal
    /\ pc' = "Idle"
    /\ all_data' = << >>
    /\ last_max_id' = JInt(0)
    /\ readLog' = "none"
    /\ max_current_id' = 0
    /\ new_data' = << >>
    /\ payload' = NoPayload
    /\ events' = << >>
    /\ cause' = "none"
    /\ error' = "none"
    /\ postOutcome' = "none"
    /\ sameFeed' = FALSE
    /\ prevBroken' = (new_data # << >> /\ error # "none")
    /\ resp' = IF "GET" \in Range(events) THEN resp ELSE NoResponse
    /\ fileAtStart' = stateFile
    /\ UNCHANGED << stateFile, env, propagated, persistedIds >>

\* The scheduler starts the next run once the previous one has returned; the
\* feed either still serves the response of the previous run or has moved on
\* (which of the two matters only to a run that will issue a request).
StartRun ==
    /\ pc = "Idle"
    /\ pc' = "Init"
    /\ env' \in Envs
    /\ fileAtStart' = stateFile
    /\ \E same \in BOOLEAN :
          /\ sameFeed' = /\ same
                          /\ resp # NoResponse
                          /\ env'.IPO_NEWS_URL /\ env'.DISCORD_WEBHOOK_URL
          /\ resp' = IF sameFeed' THEN resp ELSE NoResponse
    /\ UNCHANGED << stateFile, all_data, last_max_id, readLog, max_current_id,
                    new_data, payload, events, cause, error, propagated,
                    postOutcome, persistedIds, prevBroken >>

Next ==
    \/ LoadConfig
    \/ Fetch
    \/ ReadState
    \/ Diff
    \/ Skip
    \/ Render
    \/ Deliver
    \/ Persist
    \/ Return
    \/ StartRun

Spec == Init /\ [][Next]_vars

(* ============================== properties ============================= *)
Did(e) == e \in Range(events)

Count(e) == Cardinality({ i \in DOMAIN events : events[i] = e })

\* The integer a reader of the file content f obtains.
Watermark(f) == IF f.kind = "object" THEN f.val ELSE 0

\* Positions of the fetched page whose id lies above the value read.
NewIdx == { i \in DOMAIN all_data : all_data[i].ipoId > last_max_id.v }

\* The j-th smallest element of a set of positions.
Nth(S, j) == CHOOSE i \in S : Cardinality({ x \in S : x < i }) = j - 1

Titles == { payload.embeds[j].title : j \in DOMAIN payload.embeds }

\* C1: the persisted last_max_id never decreases: a step that changes the
\* state file writes an integer that is at least the value the run read and
\* at least the value the file held, and while a run has not written, the
\* file is as it was when the run began.
C1_WatermarkNeverDecreases ==
    [][ /\ \/ stateFile' = stateFile
           \/ /\ stateFile'.kind = "object"
              /\ last_max_id.type = "int"
              /\ stateFile'.val >= last_max_id.v
              /\ stateFile'.val >= Watermark(stateFile)
        /\ ~("WRITE" \in Range(events')) => stateFile' = fileAtStart' ]_vars

\* A run overwrote a positive watermark after fetching a page that also
\* holds an id below it.
C1_Witness ==
    /\ pc = "Persisted"
    /\ Did("WRITE")
    /\ fileAtStart.kind = "object"
    /\ fileAtStart.val > 0
    /\ stateFile.val > fileAtStart.val
    /\ \E i \in DOMAIN all_data : all_data[i].ipoId < fileAtStart.val

\* C2: the payload handed to send_discord_alert holds exactly the first
\* min(3, k) of the k fetched entries whose ipoId is above the value read, in
\* feed order, and no entry whose ipoId is at or below it.
C2_PayloadIsFirstThreeNew ==
    Did("POST") =>
        LET k == Cardinality(NewIdx)
            n == IF k < 3 THEN k ELSE 3
        IN  /\ Len(payload.embeds) = n
            /\ \A j \in 1 .. n :
                  payload.embeds[j].title = all_data[Nth(NewIdx, j)].companyName
            /\ \A i \in DOMAIN all_data :
                  all_data[i].ipoId <= last_max_id.v
                      => all_data[i].companyName \notin Titles

\* More than three entries were new and the page was not in ascending order.
C2_Witness ==
    /\ Did("POST")
    /\ Cardinality(NewIdx) > 3
    /\ all_data[1].ipoId > all_data[2].ipoId

\* C3: the value a run writes to the state file is the maximum ipoId over
\* all fetched entries.
C3_WritesPageMaximum ==
    (Did("WRITE") /\ pc = "Persisted") =>
        /\ stateFile.kind = "object"
        /\ \A i \in DOMAIN all_data : all_data[i].ipoId <= stateFile.val
        /\ \E i \in DOMAIN all_data : all_data[i].ipoId = stateFile.val

\* The maximum written belongs to a new entry that was not in the payload.
C3_Witness ==
    /\ Did("WRITE")
    /\ pc = "Persisted"
    /\ Len(new_data) > 3
    /\ new_data[4].ipoId = stateFile.val

\* The effects the second of two runs on one feed response must not have.
SecondRunIsQuiet ==
    /\ new_data = << >>
    /\ ~Did("POST")
    /\ ~Did("WRITE")
    /\ stateFile = fileAtStart

C5_PersistedPageNeverRenotified ==
    stateFile = fileAtStart =>
        \A i \in persistedIds : Entry(i).companyName \notin Titles

\* A later run notifies after a run that persisted a page of more than
\* three entries.
C5_Witness ==
    /\ Cardinality(persistedIds) > 3
    /\ stateFile = fileAtStart
    /\ Did("POST")

\* Responses on which the run aborts: a non-200 HTTP status, or a parsed
\* body that is empty, has another statusCode or has no result.data.
AbortingKinds == {"http500", "falsy", "badstatus", "noresult", "nodata"}

\* C6: a run without its configuration issues no request and touches
\* nothing; a run whose response is one of the aborting ones neither posts
\* nor reads nor writes the state file; both end aborted.
C6_EarlyAbortHasNoEffects ==
    /\ ~(env.IPO_NEWS_URL /\ env.DISCORD_WEBHOOK_URL) =>
          /\ events = << >>
          /\ stateFile = fileAtStart
          /\ pc \in {"Init", "Aborted", "Idle"}
    /\ (Did("GET") /\ resp.kind \in AbortingKinds) =>
          /\ events = << "GET" >>
          /\ stateFile = fileAtStart
          /\ pc = "Aborted"

\* A run was aborted by a body whose statusCode is not 200 although it
\* carries entries.
C6_Witness ==
    /\ pc = "Aborted"
    /\ Did("GET")
    /\ resp.kind = "badstatus"
    /\ resp.data # << >>

\* What C7 says of a finished run: one POST, and for the three delivery
\* outcomes the state write follows it.
OnePostThenWrite ==
    /\ Count("POST") = 1
    /\ postOutcome \in {"ok", "httperror", "transport"} =>
          events = << "GET", "READ", "POST", "WRITE" >>

C8_ReadNeverFails ==
    Did("READ") =>
        /\ error # "read"
        /\ last_max_id.type = "int"
        /\ fileAtStart.kind = "absent" =>
              last_max_id.v = 0 /\ readLog = "info"
        /\ fileAtStart.kind \in {"empty", "list", "wrongkey"} =>
              last_max_id.v = 0 /\ readLog = "warning"
        /\ fileAtStart.kind = "object" =>
              last_max_id.v = fileAtStart.val

\* C9: a run whose page holds no ipoId above the value read posts nothing
\* and leaves the state file alone.
C9_NothingNewNoEffects ==
    ( /\ Did("READ")
      /\ last_max_id.type = "int"
      /\ \A i \in DOMAIN all_data : all_data[i].ipoId <= last_max_id.v )
        => /\ ~Did("POST")
           /\ ~Did("WRITE")
           /\ stateFile = fileAtStart
           /\ pc \in Terminal => pc = "Persisted"

\* A run finished on a page whose maximum is below the stored watermark.
C9_Witness ==
    /\ pc = "Persisted"
    /\ Did("READ")
    /\ last_max_id.type = "int"
    /\ \A i \in DOMAIN all_data : all_data[i].ipoId < last_max_id.v

\* The positions of a run that has not ended, and their order in main().
InRun == {"Init", "Configured", "Fetched", "StateRead", "Diffed", "Rendered",
          "Notified"}

Rank(p) ==
    CASE p = "Init"       -> 1
      [] p = "Configured" -> 2
      [] p = "Fetched"    -> 3
      [] p = "StateRead"  -> 4
      [] p = "Diffed"     -> 5
      [] p = "Rendered"   -> 6
      [] p = "Notified"   -> 7
      [] p \in Terminal   -> 8
      [] OTHER            -> 9

RunStep ==
    LoadConfig \/ Fetch \/ ReadState \/ Diff \/ Skip \/ Render \/ Deliver \/ Persist

Advances ==
    pc \in InRun =>
        /\ pc' \in (InRun \cup Terminal)
        /\ Rank(pc') > Rank(pc)

\* C10: no exception leaves main(); a step that raises ends the run in
\* Aborted and nothing but the return follows it; a run that has not ended
\* always has a step to take and every step moves it forward, so every run
\* reaches Persisted or Aborted.
C10_RunAlwaysEndsCleanly ==
    /\ [](~propagated)
    /\ [](error # "none" => pc = "Aborted")
    /\ [](pc \in InRun => ENABLED RunStep)
    /\ [][Advances]_vars
    /\ [][error # "none" => pc' = "Idle"]_vars

\* The state write raised after the delivery and the run ended aborted.
C10_Witness ==
    /\ pc = "Aborted"
    /\ error = "write"
    /\ events = << "GET", "READ", "POST", "WRITE" >>

====
